---- MODULE Spec2Model ----
(***************************************************************************)
(* Response serialization of tiny-http (src/src/response.rs):             *)
(* header policy of Response, transfer-encoding negotiation and raw_print.*)
(* Strings are sequences of ASCII codes, Option<T> is a sequence of       *)
(* length 0 (None) or 1 (Some).                                           *)
(***************************************************************************)
EXTENDS Integers, Sequences, FiniteSets, TLC

None == <<>>
Some(v) == <<v>>
IsSome(o) == Len(o) = 1
Unwrap(o) == o[1]

Identity == "Identity"
Chunked == "Chunked"

(***************************************************************************)
(* ASCII string primitives                                                 *)
(***************************************************************************)
ToLower(c) == IF c >= 65 /\ c <= 90 THEN c + 32 ELSE c

EqIgnoreAsciiCase(a, b) ==
    /\ Len(a) = Len(b)
    /\ \A i \in 1..Len(a) : ToLower(a[i]) = ToLower(b[i])

IsSpace(c) == c = 32 \/ c = 9

IsDigit(c) == c >= 48 /\ c <= 57

RECURSIVE TrimLeft(_)
TrimLeft(s) ==
    IF s # <<>> /\ IsSpace(Head(s)) THEN TrimLeft(Tail(s)) ELSE s

RECURSIVE TrimRight(_)
TrimRight(s) ==
    IF s # <<>> /\ IsSpace(s[Len(s)]) THEN TrimRight(SubSeq(s, 1, Len(s) - 1)) ELSE s

Trim(s) == TrimRight(TrimLeft(s))

\* index of the first occurrence of byte c in s, 0 when absent
IndexOf(s, c) ==
    IF \E i \in 1..Len(s) : s[i] = c
    THEN CHOOSE i \in 1..Len(s) : s[i] = c /\ \A j \in 1..(i - 1) : s[j] # c
    ELSE 0

RECURSIVE Split(_, _)
Split(s, c) ==
    LET i == IndexOf(s, c)
    IN  IF i = 0 THEN <<s>>
        ELSE <<SubSeq(s, 1, i - 1)>> \o Split(SubSeq(s, i + 1, Len(s)), c)

StartsWith(s, p) == Len(s) >= Len(p) /\ SubSeq(s, 1, Len(p)) = p

RECURSIVE DigitsValue(_)
DigitsValue(s) ==
    IF s = <<>> THEN 0
    ELSE DigitsValue(SubSeq(s, 1, Len(s) - 1)) * 10 + (s[Len(s)] - 48)

\* from_str::<uint>: a non-empty run of decimal digits (the inputs of this
\* model stay far below the width of uint)
ParseUint(s) ==
    IF s # <<>> /\ \A i \in 1..Len(s) : IsDigit(s[i])
    THEN Some(DigitsValue(s))
    ELSE None

\* "{}" of a uint: decimal, no leading zeros
RECURSIVE FormatUint(_)
FormatUint(n) ==
    IF n < 10 THEN <<48 + n>>
    ELSE FormatUint(n \div 10) \o <<48 + (n % 10)>>

\* from_str::<f32> on the weights a q parameter carries, in thousandths:
\* [-]digits[.digits], at most three fractional digits
ParseF32(s) ==
    LET neg  == s # <<>> /\ Head(s) = 45
        body == IF neg THEN Tail(s) ELSE s
        dot  == IndexOf(body, 46)
        ip   == IF dot = 0 THEN body ELSE SubSeq(body, 1, dot - 1)
        fp   == IF dot = 0 THEN <<>> ELSE SubSeq(body, dot + 1, Len(body))
        pad  == fp \o SubSeq(<<48, 48, 48>>, 1, 3 - Len(fp))
        ok   == /\ Len(ip) + Len(fp) > 0
                /\ Len(fp) <= 3
                /\ \A i \in 1..Len(ip) : IsDigit(ip[i])
                /\ \A i \in 1..Len(fp) : IsDigit(fp[i])
        mag  == DigitsValue(ip) * 1000 + DigitsValue(pad)
    IN  IF ok THEN Some(IF neg THEN 0 - mag ELSE mag) ELSE None

(***************************************************************************)
(* String literals of the source                                           *)
(***************************************************************************)
\* "Accept-Ranges"
L_AcceptRanges == <<65, 99, 99, 101, 112, 116, 45, 82, 97, 110, 103, 101, 115>>
\* "Connection"
L_Connection == <<67, 111, 110, 110, 101, 99, 116, 105, 111, 110>>
\* "Content-Range"
L_ContentRange == <<67, 111, 110, 116, 101, 110, 116, 45, 82, 97, 110, 103, 101>>
\* "Trailer"
L_Trailer == <<84, 114, 97, 105, 108, 101, 114>>
\* "Transfer-Encoding"
L_TransferEncoding == <<84, 114, 97, 110, 115, 102, 101, 114, 45, 69, 110, 99, 111, 100, 105, 110, 103>>
\* "Upgrade"
L_Upgrade == <<85, 112, 103, 114, 97, 100, 101>>
\* "Content-Length"
L_ContentLength == <<67, 111, 110, 116, 101, 110, 116, 45, 76, 101, 110, 103, 116, 104>>
\* "TE"
L_TE == <<84, 69>>
\* "Date"
L_Date == <<68, 97, 116, 101>>
\* "Server"
L_Server == <<83, 101, 114, 118, 101, 114>>
\* "identity"
L_identity == <<105, 100, 101, 110, 116, 105, 116, 121>>
\* "chunked"
L_chunked == <<99, 104, 117, 110, 107, 101, 100>>
\* "Server: tiny-http (Rust)"
L_ServerLine == <<83, 101, 114, 118, 101, 114, 58, 32, 116, 105, 110, 121, 45, 104, 116, 116, 112, 32, 40, 82, 117, 115, 116, 41>>
\* "Connection: upgrade"
L_ConnectionUpgradeLine == <<67, 111, 110, 110, 101, 99, 116, 105, 111, 110, 58, 32, 117, 112, 103, 114, 97, 100, 101>>
\* "Transfer-Encoding: chunked"
L_TransferEncodingChunkedLine == <<84, 114, 97, 110, 115, 102, 101, 114, 45, 69, 110, 99, 111, 100, 105, 110, 103, 58, 32, 99, 104, 117, 110, 107, 101, 100>>
\* "Upgrade: "
L_UpgradePrefix == <<85, 112, 103, 114, 97, 100, 101, 58, 32>>
\* "Content-Length: "
L_ContentLengthPrefix == <<67, 111, 110, 116, 101, 110, 116, 45, 76, 101, 110, 103, 116, 104, 58, 32>>
\* "Date: "
L_DatePrefix == <<68, 97, 116, 101, 58, 32>>
\* "HTTP/"
L_HTTP == <<72, 84, 84, 80, 47>>
\* ": "
L_ColonSpace == <<58, 32>>
\* "\r\n"
L_CRLF == <<13, 10>>
\* "0\r\n\r\n"
L_ChunkEnd == <<48, 13, 10, 13, 10>>
\* "Content-Type: text/plain; charset=UTF-8"
L_ContentTypeLine == <<67, 111, 110, 116, 101, 110, 116, 45, 84, 121, 112, 101, 58, 32, 116, 101, 120, 116, 47, 112, 108, 97, 105, 110, 59, 32, 99, 104, 97, 114, 115, 101, 116, 61, 85, 84, 70, 45, 56>>

(***************************************************************************)
(* common::Header, common::HTTPVersion                                     *)
(***************************************************************************)
Header(f, v) == [field |-> f, value |-> v]

\* HeaderField::equiv(&str): ASCII case-insensitive comparison
Equiv(field, name) == EqIgnoreAsciiCase(field, name)

\* from_str::<Header>: split at the first ':', trim both sides
FromStrHeader(s) ==
    LET i == IndexOf(s, 58)
    IN  IF i = 0 THEN None
        ELSE Some(Header(Trim(SubSeq(s, 1, i - 1)), Trim(SubSeq(s, i + 1, Len(s)))))

\* HTTPVersion(major, minor) <= HTTPVersion(major, minor), derived ordering
VersionLe(a, b) == a[1] < b[1] \/ (a[1] = b[1] /\ a[2] <= b[2])

(***************************************************************************)
(* TransferEncoding and its negotiation                                    *)
(***************************************************************************)
TransferEncoding_from_str(input) ==
    IF EqIgnoreAsciiCase(input, L_identity) THEN Some(Identity)
    ELSE IF EqIgnoreAsciiCase(input, L_chunked) THEN Some(Chunked)
    ELSE None

\* the weight of one list element: the first ";q=<f32>" parameter that
\* parses, 1.0 otherwise
RECURSIVE QValue(_)
QValue(params) ==
    IF params = <<>> THEN 1000
    ELSE LET p == TrimLeft(Head(params))
             v == IF StartsWith(p, <<113, 61>>)
                  THEN ParseF32(Trim(SubSeq(p, 3, Len(p))))
                  ELSE None
         IN  IF IsSome(v) THEN Unwrap(v) ELSE QValue(Tail(params))

\* util::parse_header_value: "a;q=0.5, b" -> <<(a, 0.5), (b, 1.0)>>
parse_header_value(input) ==
    LET elems == Split(input, 44)
    IN  [i \in 1..Len(elems) |->
            LET params == Split(elems[i], 59)
            IN  [val0 |-> Trim(Head(params)), val1 |-> QValue(Tail(params))]]

\* sort_by(|a, b| b.val1().partial_cmp(&a.val1()).unwrap_or(Equal)):
\* a stable sort, descending by weight
RECURSIVE InsertByWeight(_, _)
InsertByWeight(sorted, e) ==
    IF sorted = <<>> THEN <<e>>
    ELSE IF Head(sorted).val1 >= e.val1
         THEN <<Head(sorted)>> \o InsertByWeight(Tail(sorted), e)
         ELSE <<e>> \o sorted

\* faulty variant: the list is walked in the order the client wrote it
SortByWeight_Unsorted(parse) == parse

RECURSIVE SortByWeight(_)
SortByWeight(parse) ==
    IF parse = <<>> THEN <<>>
    ELSE InsertByWeight(SortByWeight(SubSeq(parse, 1, Len(parse) - 1)), parse[Len(parse)])

\* faulty variant: an element is taken whatever its weight
RECURSIVE FirstSupported_TakesZero(_)
FirstSupported_TakesZero(parse) ==
    IF parse = <<>> THEN None
    ELSE IF IsSome(TransferEncoding_from_str(Head(parse).val0))
         THEN TransferEncoding_from_str(Head(parse).val0)
         ELSE FirstSupported_TakesZero(Tail(parse))

\* the loop over the sorted elements: q <= 0 skipped, the first supported
\* encoding returned
RECURSIVE FirstSupported(_)
FirstSupported(parse) ==
    IF parse = <<>> THEN None
    ELSE IF Head(parse).val1 <= 0 THEN FirstSupported(Tail(parse))
    ELSE IF IsSome(TransferEncoding_from_str(Head(parse).val0))
         THEN TransferEncoding_from_str(Head(parse).val0)
         ELSE FirstSupported(Tail(parse))

IsTE(h) == Equiv(h.field, L_TE)

\* request_headers.iter().find(..): the first TE header, as an Option
FindTE(request_headers) ==
    IF \E i \in 1..Len(request_headers) : IsTE(request_headers[i])
    THEN Some(request_headers[CHOOSE i \in 1..Len(request_headers) :
                  IsTE(request_headers[i]) /\ \A j \in 1..(i - 1) : ~IsTE(request_headers[j])])
    ELSE None

user_request(request_headers) ==
    LET te == FindTE(request_headers)
    IN  IF IsSome(te)
        THEN FirstSupported(SortByWeight(parse_header_value(Unwrap(te).value)))
        ELSE None

chunks_threshold == 32768

\* faulty variant: HTTP/1.0 itself is not caught by the version check
choose_transfer_encoding_StrictVersion(request_headers, http_version, entity_length, has_additional_headers) ==
    IF ~VersionLe(<<1, 0>>, http_version) THEN Identity
    ELSE IF IsSome(user_request(request_headers)) THEN Unwrap(user_request(request_headers))
    ELSE IF has_additional_headers THEN Chunked
    ELSE IF entity_length = None \/ Unwrap(entity_length) >= chunks_threshold THEN Chunked
    ELSE Identity

\* faulty variant: a length equal to the threshold is still sent as Identity
choose_transfer_encoding_AboveThreshold(request_headers, http_version, entity_length, has_additional_headers) ==
    IF VersionLe(http_version, <<1, 0>>) THEN Identity
    ELSE IF IsSome(user_request(request_headers)) THEN Unwrap(user_request(request_headers))
    ELSE IF has_additional_headers THEN Chunked
    ELSE IF entity_length = None \/ Unwrap(entity_length) > chunks_threshold THEN Chunked
    ELSE Identity

\* faulty variant: the trailer rule is consulted before the client's preference
choose_transfer_encoding_TrailerFirst(request_headers, http_version, entity_length, has_additional_headers) ==
    IF VersionLe(http_version, <<1, 0>>) THEN Identity
    ELSE IF has_additional_headers THEN Chunked
    ELSE IF IsSome(user_request(request_headers)) THEN Unwrap(user_request(request_headers))
    ELSE IF entity_length = None \/ Unwrap(entity_length) >= chunks_threshold THEN Chunked
    ELSE Identity

choose_transfer_encoding(request_headers, http_version, entity_length, has_additional_headers) ==
    IF VersionLe(http_version, <<1, 0>>) THEN Identity
    ELSE IF IsSome(user_request(request_headers)) THEN Unwrap(user_request(request_headers))
    ELSE IF has_additional_headers THEN Chunked
    ELSE IF entity_length = None \/ Unwrap(entity_length) >= chunks_threshold THEN Chunked
    ELSE Identity

(***************************************************************************)
(* Bounds                                                                  *)
(***************************************************************************)
\* the longest stored header list the model builds
MaxHeaders == 2
\* the longest header list handed to Response::new
MaxInitHeaders == 1
\* the most elements of one TE header value
MaxTE == 2
\* the most writes one chunked encoder receives
MaxWrites == 3
\* the latest write the writer is made to fail, counted from 0
MaxFailAfter == 7

(***************************************************************************)
(* State                                                                   *)
(***************************************************************************)
VARIABLES
    status_code,        \* Response.status_code
    headers,            \* Response.headers
    reader,             \* Response.reader: the slices its reads will yield
    data_length,        \* Response.data_length
    pc,                 \* "built", or "printed" once raw_print consumed it
    lastOp,             \* the operation that produced this state, its input
    call,               \* the arguments of raw_print
    transfer_encoding,  \* raw_print's local of that name
    sink,               \* the writes the writer received, in order
    result,             \* what raw_print returned: "Ok", "Err", "Panic"
    reads,              \* read calls raw_print made on Response.reader
    failAfter,          \* the writer fails the write after this many (None: no write)
    negIn,              \* arguments of a direct choose_transfer_encoding call
    negOut              \* its result

response == <<status_code, headers, reader, data_length>>
printed == <<call, transfer_encoding, sink, result, reads>>
vars == <<status_code, headers, reader, data_length, pc, lastOp, call,
          transfer_encoding, sink, result, reads, failAfter, negIn, negOut>>

(***************************************************************************)
(* Response: header policy                                                 *)
(***************************************************************************)
\* faulty variant: Trailer is missing from the list
IsForbiddenField_NoTrailer(field) ==
    \/ Equiv(field, L_AcceptRanges)
    \/ Equiv(field, L_Connection)
    \/ Equiv(field, L_ContentRange)
    \/ Equiv(field, L_TransferEncoding)
    \/ Equiv(field, L_Upgrade)

IsForbiddenField(field) ==
    \/ Equiv(field, L_AcceptRanges)
    \/ Equiv(field, L_Connection)
    \/ Equiv(field, L_ContentRange)
    \/ Equiv(field, L_Trailer)
    \/ Equiv(field, L_TransferEncoding)
    \/ Equiv(field, L_Upgrade)

\* faulty variant: a Content-Length that does not parse clears the length, one
\* that parses is stored as a header as well
AddHeader_StoresLength(hs, len, header) ==
    IF IsForbiddenField(header.field) THEN <<hs, len>>
    ELSE IF Equiv(header.field, L_ContentLength)
         THEN IF IsSome(ParseUint(header.value))
              THEN <<Append(hs, header), ParseUint(header.value)>>
              ELSE <<hs, None>>
    ELSE <<Append(hs, header), len>>

\* faulty variant: a header equal to a stored one is not stored again
AddHeader_Dedup(hs, len, header) ==
    IF IsForbiddenField(header.field) THEN <<hs, len>>
    ELSE IF Equiv(header.field, L_ContentLength)
         THEN IF IsSome(ParseUint(header.value))
              THEN <<hs, ParseUint(header.value)>>
              ELSE <<hs, len>>
    ELSE IF \E i \in 1..Len(hs) : hs[i] = header THEN <<hs, len>>
    ELSE <<Append(hs, header), len>>

\* Response::add_header on the pair <<headers, data_length>>
AddHeader(hs, len, header) ==
    IF IsForbiddenField(header.field) THEN <<hs, len>>
    ELSE IF Equiv(header.field, L_ContentLength)
         THEN IF IsSome(ParseUint(header.value))
              THEN <<hs, ParseUint(header.value)>>
              ELSE <<hs, len>>
    ELSE <<Append(hs, header), len>>

RECURSIVE AddHeaders(_, _, _)
AddHeaders(hs, len, list) ==
    IF list = <<>> THEN <<hs, len>>
    ELSE LET r == AddHeader(hs, len, Head(list))
         IN  AddHeaders(r[1], r[2], Tail(list))

\* Response::new: every header, then every additional header, through
\* add_header
New(hs, len, additional_headers) ==
    LET r == AddHeaders(<<>>, len, hs)
    IN  IF IsSome(additional_headers)
        THEN AddHeaders(r[1], r[2], Unwrap(additional_headers))
        ELSE r

RECURSIVE TotalLen(_)
TotalLen(slices) ==
    IF slices = <<>> THEN 0 ELSE Len(Head(slices)) + TotalLen(Tail(slices))
\* "Switching Protocols"
R_SwitchingProtocols == <<83, 119, 105, 116, 99, 104, 105, 110, 103, 32, 80, 114, 111, 116, 111, 99, 111, 108, 115>>
\* "OK"
R_OK == <<79, 75>>
\* "No Content"
R_NoContent == <<78, 111, 32, 67, 111, 110, 116, 101, 110, 116>>
\* "Not Modified"
R_NotModified == <<78, 111, 116, 32, 77, 111, 100, 105, 102, 105, 101, 100>>
\* "Unknown"
R_Unknown == <<85, 110, 107, 110, 111, 119, 110>>
\* "ok"
B_ok == <<111, 107>>
\* "He"
B_He == <<72, 101>>
\* "llo"
B_llo == <<108, 108, 111>>
\* "websocket"
U_websocket == <<119, 101, 98, 115, 111, 99, 107, 101, 116>>
\* "h2c"
U_h2c == <<104, 50, 99>>
\* "Sun, 01 Nov 2026 12:00:00 GMT"
D_1 == <<83, 117, 110, 44, 32, 48, 49, 32, 78, 111, 118, 32, 50, 48, 50, 54, 32, 49, 50, 58, 48, 48, 58, 48, 48, 32, 71, 77, 84>>
\* "Sun, 01 Nov 2026 12:00:01 GMT"
D_2 == <<83, 117, 110, 44, 32, 48, 49, 32, 78, 111, 118, 32, 50, 48, 50, 54, 32, 49, 50, 58, 48, 48, 58, 48, 49, 32, 71, 77, 84>>
\* "Host"
F_Host == <<72, 111, 115, 116>>
\* "te"
F_te == <<116, 101>>
\* "X-A"
F_XA == <<88, 45, 65>>
\* "date"
F_date == <<100, 97, 116, 101>>
\* "connection"
F_connection == <<99, 111, 110, 110, 101, 99, 116, 105, 111, 110>>
\* "CONTENT-RANGE"
F_CONTENTRANGE == <<67, 79, 78, 84, 69, 78, 84, 45, 82, 65, 78, 71, 69>>
\* "transfer-encoding"
F_transferencoding == <<116, 114, 97, 110, 115, 102, 101, 114, 45, 101, 110, 99, 111, 100, 105, 110, 103>>
\* "content-length"
F_contentlength == <<99, 111, 110, 116, 101, 110, 116, 45, 108, 101, 110, 103, 116, 104>>
\* "bytes"
V_bytes == <<98, 121, 116, 101, 115>>
\* "close"
V_close == <<99, 108, 111, 115, 101>>
\* "upgrade"
V_upgrade == <<117, 112, 103, 114, 97, 100, 101>>
\* "gzip"
V_gzip == <<103, 122, 105, 112>>
\* "mine"
V_mine == <<109, 105, 110, 101>>
\* "x"
V_x == <<120>>
\* "1"
V_1 == <<49>>
\* "0"
V_0 == <<48>>
\* "2"
V_2 == <<50>>
\* "32768"
V_32768 == <<51, 50, 55, 54, 56>>
\* "abc"
V_abc == <<97, 98, 99>>
\* "-1"
V_minus1 == <<45, 49>>
\* ""
V_empty == <<>>
\* "example.org"
V_example == <<101, 120, 97, 109, 112, 108, 101, 46, 111, 114, 103>>
\* "Chunked"
T_Chunked == <<67, 104, 117, 110, 107, 101, 100>>
\* "0"
Q_0 == <<48>>
\* "0.3"
Q_03 == <<48, 46, 51>>
\* "0.9"
Q_09 == <<48, 46, 57>>

(***************************************************************************)
(* raw_print                                                               *)
(***************************************************************************)
\* StatusCode::get_default_reason_phrase, for the codes the model uses
ReasonPhrase(code) ==
    CASE code = 101 -> R_SwitchingProtocols
      [] code = 200 -> R_OK
      [] code = 204 -> R_NoContent
      [] code = 304 -> R_NotModified
      [] OTHER -> R_Unknown

\* "{}" of an HTTPVersion
ShowVersion(v) == FormatUint(v[1]) \o <<46>> \o FormatUint(v[2])

IsDate(h) == Equiv(h.field, L_Date)
IsServer(h) == Equiv(h.field, L_Server)

build_date_header(now) == Unwrap(FromStrHeader(L_DatePrefix \o now))

\* faulty variant: a Date header is inserted whatever the list holds
WithDate_Always(hs, now) == <<build_date_header(now)>> \o hs

WithDate(hs, now) ==
    IF ~\E i \in 1..Len(hs) : IsDate(hs[i]) THEN <<build_date_header(now)>> \o hs ELSE hs

WithServer(hs) ==
    IF ~\E i \in 1..Len(hs) : IsServer(hs[i]) THEN <<Unwrap(FromStrHeader(L_ServerLine))>> \o hs ELSE hs

\* faulty variant: Connection is inserted before Upgrade, so Upgrade ends
\* up first
WithUpgrade_UpgradeFirst(hs, upgrade) ==
    IF IsSome(upgrade)
    THEN <<Unwrap(FromStrHeader(L_UpgradePrefix \o Unwrap(upgrade)))>>
         \o <<Unwrap(FromStrHeader(L_ConnectionUpgradeLine))>> \o hs
    ELSE hs

\* insert(0, Upgrade) and then insert(0, Connection)
WithUpgrade(hs, upgrade) ==
    IF IsSome(upgrade)
    THEN <<Unwrap(FromStrHeader(L_ConnectionUpgradeLine))>>
         \o <<Unwrap(FromStrHeader(L_UpgradePrefix \o Unwrap(upgrade)))>> \o hs
    ELSE hs

\* faulty variant: the upgrade does not reset the transfer encoding
ResolvedEncoding_KeptOnUpgrade(request_headers, http_version, len, upgrade) ==
    Some(choose_transfer_encoding(request_headers, http_version, len, FALSE))

\* the transfer encoding after the upgrade override
ResolvedEncoding(request_headers, http_version, len, upgrade) ==
    IF IsSome(upgrade) THEN None
    ELSE Some(choose_transfer_encoding(request_headers, http_version, len, FALSE))

\* faulty variant: 304 is missing from the match
BodyForbidden_No304(code) == (code >= 100 /\ code <= 199) \/ code = 204

BodyForbidden(code) == (code >= 100 /\ code <= 199) \/ code = 204 \/ code = 304

\* the framing header pushed last; only called when the assertion holds
WithFraming(hs, te, len) ==
    IF te = Some(Chunked)
    THEN Append(hs, Unwrap(FromStrHeader(L_TransferEncodingChunkedLine)))
    ELSE IF te = Some(Identity)
    THEN Append(hs, Unwrap(FromStrHeader(L_ContentLengthPrefix \o FormatUint(Unwrap(len)))))
    ELSE hs

\* write_message_header: one write per write! call
StatusLine(http_version, code) ==
    L_HTTP \o ShowVersion(http_version) \o <<32>> \o FormatUint(code) \o <<32>>
        \o ReasonPhrase(code) \o L_CRLF

HeaderLine(h) == h.field \o L_ColonSpace \o h.value \o L_CRLF

write_message_header(http_version, code, hs) ==
    <<StatusLine(http_version, code)>>
        \o [i \in 1..Len(hs) |-> HeaderLine(hs[i])]
        \o <<L_CRLF>>

\* lower-case hexadecimal, no leading zeros
RECURSIVE FormatHex(_)
FormatHex(n) ==
    LET d(x) == IF x < 10 THEN 48 + x ELSE 87 + x
    IN  IF n < 16 THEN <<d(n)>> ELSE FormatHex(n \div 16) \o <<d(n % 16)>>

\* util::ChunksEncoder fed by copy: one chunk per slice read, the
\* terminating chunk when the encoder is closed
ChunkFrame(slice) == FormatHex(Len(slice)) \o L_CRLF \o slice \o L_CRLF

RECURSIVE ConcatAll(_)
ConcatAll(seqs) ==
    IF seqs = <<>> THEN <<>> ELSE Head(seqs) \o ConcatAll(Tail(seqs))

\* faulty variant: a write of length 0 is framed like any other, which
\* spells the terminating chunk
ChunksEncoder_write_FramesEmpty(slice) == <<ChunkFrame(slice)>>

\* what one write to the encoder sends to its sink: nothing for an empty
\* slice, else one chunk
ChunksEncoder_write(slice) ==
    IF Len(slice) = 0 THEN <<>> ELSE <<ChunkFrame(slice)>>

\* what closing the encoder sends: the terminating chunk
ChunksEncoder_close == <<L_ChunkEnd>>

ChunkedWrites(slices) ==
    ConcatAll([i \in 1..Len(slices) |-> ChunksEncoder_write(slices[i])])
        \o ChunksEncoder_close

\* util::EqualReader fed to copy: the slices the source yields, cut off
\* after size bytes
RECURSIVE EqualReaderSlices(_, _)
EqualReaderSlices(slices, size) ==
    IF size = 0 \/ slices = <<>> THEN <<>>
    ELSE IF Len(Head(slices)) >= size THEN <<SubSeq(Head(slices), 1, size)>>
    ELSE <<Head(slices)>> \o EqualReaderSlices(Tail(slices), size - Len(Head(slices)))

\* faulty variant: the Identity body is copied from the source itself
BodyWrites_Unbounded(no_body, te, slices, len) ==
    IF no_body THEN <<>>
    ELSE IF te = Some(Chunked) THEN ChunkedWrites(slices)
    ELSE IF te = Some(Identity)
    THEN IF Unwrap(len) >= 1 THEN slices ELSE <<>>
    ELSE <<>>

\* the writes of the "sending the body" block
BodyWrites(no_body, te, slices, len) ==
    IF no_body THEN <<>>
    ELSE IF te = Some(Chunked) THEN ChunkedWrites(slices)
    ELSE IF te = Some(Identity)
    THEN IF Unwrap(len) >= 1 THEN EqualReaderSlices(slices, Unwrap(len)) ELSE <<>>
    ELSE <<>>

\* faulty variant: an Identity body of declared length 0 is copied like any
\* other, so the source is asked once
BodyReads_CopiesEmpty(no_body, te, slices, len) ==
    IF no_body THEN 0
    ELSE IF te = Some(Chunked) THEN Len(slices) + 1
    ELSE IF te = Some(Identity)
    THEN IF TotalLen(slices) >= Unwrap(len) /\ Unwrap(len) >= 1
         THEN Len(EqualReaderSlices(slices, Unwrap(len)))
         ELSE Len(slices) + 1
    ELSE 0

\* read calls on the body source when every write succeeds: copy reads
\* until end of stream; EqualReader stops asking once its size is spent
BodyReads(no_body, te, slices, len) ==
    IF no_body THEN 0
    ELSE IF te = Some(Chunked) THEN Len(slices) + 1
    ELSE IF te = Some(Identity)
    THEN IF Unwrap(len) >= 1
         THEN IF TotalLen(slices) >= Unwrap(len)
              THEN Len(EqualReaderSlices(slices, Unwrap(len)))
              ELSE Len(slices) + 1
         ELSE 0
    ELSE 0

\* the writes of write_message_header for a Response: Date, Server and
\* the upgrade headers in front, the framing header last
HeadWrites(code, hs, len, http_version, request_headers, upgrade, now) ==
    write_message_header(http_version, code,
        WithFraming(WithUpgrade(WithServer(WithDate(hs, now)), upgrade),
                    ResolvedEncoding(request_headers, http_version, len, upgrade), len))

\* every write raw_print makes on a writer that accepts them all
SerializedWrites(code, hs, slices, len, http_version, request_headers, do_not_send_body, upgrade, now) ==
    HeadWrites(code, hs, len, http_version, request_headers, upgrade, now)
        \o BodyWrites(do_not_send_body \/ BodyForbidden(code),
                      ResolvedEncoding(request_headers, http_version, len, upgrade),
                      slices, len)

\* faulty variant: the result of a write is ignored
TryWrites_IgnoresErrors(writes, fail) == writes

\* try!: the writes attempted when the writer fails the one after `fail`
\* (None: it fails none); nothing is attempted after the failed one
TryWrites(writes, fail) ==
    IF IsSome(fail) /\ Unwrap(fail) < Len(writes)
    THEN SubSeq(writes, 1, Unwrap(fail) + 1)
    ELSE writes

\* the writer: it keeps every attempted write but the one it fails
SinkTakes(attempts, fail) ==
    IF IsSome(fail) /\ Unwrap(fail) < Len(attempts)
    THEN SubSeq(attempts, 1, Unwrap(fail))
             \o SubSeq(attempts, Unwrap(fail) + 2, Len(attempts))
    ELSE attempts

raw_print(http_version, request_headers, do_not_send_body, upgrade, now) ==
    LET te       == ResolvedEncoding(request_headers, http_version, data_length, upgrade)
        no_body  == do_not_send_body \/ BodyForbidden(status_code)
        panics   == te = Some(Identity) /\ ~IsSome(data_length)
        head     == HeadWrites(status_code, headers, data_length, http_version,
                               request_headers, upgrade, now)
        writes   == SerializedWrites(status_code, headers, reader, data_length, http_version,
                                     request_headers, do_not_send_body, upgrade, now)
        fails    == IsSome(failAfter) /\ Unwrap(failAfter) < Len(writes)
        done     == IF fails THEN Unwrap(failAfter) ELSE Len(writes)
    IN  /\ pc = "built"
        /\ pc' = "printed"
        /\ lastOp' = [op |-> "raw_print", arg |-> <<>>]
        /\ call' = [http_version |-> http_version, request_headers |-> request_headers,
                    do_not_send_body |-> do_not_send_body, upgrade |-> upgrade,
                    now |-> now]
        /\ transfer_encoding' = te
        /\ IF panics
           THEN /\ sink' = <<>>
                /\ result' = "Panic"
                /\ reads' = 0
           ELSE /\ sink' = SinkTakes(TryWrites(writes, failAfter), failAfter)
                /\ result' = IF fails THEN "Err" ELSE "Ok"
                /\ reads' = IF ~fails THEN BodyReads(no_body, te, reader, data_length)
                            ELSE IF done < Len(head) THEN 0
                            ELSE done + 1 - Len(head)
        /\ UNCHANGED <<status_code, headers, reader, data_length, failAfter, negIn, negOut>>

(***************************************************************************)
(* Inputs                                                                  *)
(***************************************************************************)
\* a header handed to add_header, tagged with what the caller means by it:
\* class "forbidden", "length" (len: the number its value spells, if any)
\* or "plain"
In(h, class, len) == [h |-> h, class |-> class, len |-> len]

ForbiddenInputs ==
    { In(Header(L_AcceptRanges, V_bytes), "forbidden", None),
      In(Header(L_Connection, V_close), "forbidden", None),
      In(Header(F_connection, V_upgrade), "forbidden", None),
      In(Header(F_CONTENTRANGE, V_bytes), "forbidden", None),
      In(Header(L_Trailer, F_XA), "forbidden", None),
      In(Header(F_transferencoding, V_gzip), "forbidden", None),
      In(Header(L_Upgrade, U_h2c), "forbidden", None) }

LengthInputs ==
    { In(Header(L_ContentLength, V_2), "length", Some(2)),
      In(Header(F_contentlength, V_32768), "length", Some(32768)),
      In(Header(L_ContentLength, V_0), "length", Some(0)),
      In(Header(L_ContentLength, V_abc), "length", None),
      In(Header(L_ContentLength, V_minus1), "length", None),
      In(Header(F_contentlength, V_empty), "length", None) }

PlainInputs ==
    { In(Header(F_XA, V_1), "plain", None),
      In(Header(F_date, V_x), "plain", None),
      In(Header(L_Server, V_mine), "plain", None) }

HeaderInputs == ForbiddenInputs \cup LengthInputs \cup PlainInputs

SeqsUpTo(S, n) == UNION { [1..k -> S] : k \in 0..n }

InitHeaderLists == SeqsUpTo(HeaderInputs, MaxInitHeaders)

AdditionalHeaders ==
    { None, Some(<<In(Header(F_XA, V_1), "plain", None)>>),
      Some(<<In(Header(L_Connection, V_close), "forbidden", None)>>) }

Raw(list) == [i \in 1..Len(list) |-> list[i].h]

StatusCodes == {101, 200, 204, 304}

\* body sources, each the slices its reads yield
Readers == { <<>>, <<B_ok>>, <<B_He, B_llo>> }
DataLengths == { None, Some(0), Some(2), Some(32768) }

\* files for from_file, read in one slice
Files == { <<>>, <<B_ok>> }

\* in-memory buffers for from_data and from_string
Buffers == { <<>>, B_ok }
MemReader(data) == IF data = <<>> THEN <<>> ELSE <<data>>

HTTPVersions == { <<1, 0>>, <<1, 1>> }
RequestHeaderLists ==
    { <<>>,
      <<Header(F_Host, V_example), Header(L_TE, L_identity)>>,
      <<Header(F_te, T_Chunked)>> }
Upgrades == { None, Some(U_websocket) }
Clock == { D_1, D_2 }

Op(name, arg) == [op |-> name, arg |-> arg]

(***************************************************************************)
(* The life of one Response                                                *)
(***************************************************************************)
Unprinted ==
    /\ pc = "built"
    /\ call = None
    /\ transfer_encoding = None
    /\ sink = <<>>
    /\ result = "none"
    /\ reads = 0
    /\ negIn = None
    /\ negOut = None

InitNew ==
    \E code \in StatusCodes, hs \in InitHeaderLists, data \in Readers,
       len \in DataLengths, more \in AdditionalHeaders :
        /\ Len(New(Raw(hs), len, IF IsSome(more) THEN Some(Raw(Unwrap(more))) ELSE None)[1])
               <= MaxHeaders
        /\ status_code = code
        /\ headers = New(Raw(hs), len, IF IsSome(more) THEN Some(Raw(Unwrap(more))) ELSE None)[1]
        /\ data_length = New(Raw(hs), len, IF IsSome(more) THEN Some(Raw(Unwrap(more))) ELSE None)[2]
        /\ reader = data
        /\ lastOp = Op("new", <<>>)

\* from_file: file.stat() may fail
InitFromFile ==
    \E file \in Files, stat_ok \in BOOLEAN :
        /\ status_code = 200
        /\ headers = New(<<>>, None, None)[1]
        /\ data_length = IF stat_ok THEN Some(TotalLen(file)) ELSE None
        /\ reader = file
        /\ lastOp = Op("from_file", <<>>)

InitFromData ==
    \E data \in Buffers :
        /\ status_code = 200
        /\ headers = New(<<>>, Some(Len(data)), None)[1]
        /\ data_length = New(<<>>, Some(Len(data)), None)[2]
        /\ reader = MemReader(data)
        /\ lastOp = Op("from_data", <<>>)

InitFromString ==
    \E data \in Buffers :
        /\ status_code = 200
        /\ headers = New(<<Unwrap(FromStrHeader(L_ContentTypeLine))>>, Some(Len(data)), None)[1]
        /\ data_length = New(<<Unwrap(FromStrHeader(L_ContentTypeLine))>>, Some(Len(data)), None)[2]
        /\ reader = MemReader(data)
        /\ lastOp = Op("from_string", <<>>)

InitNewEmpty ==
    \E code \in StatusCodes :
        /\ status_code = code
        /\ headers = New(<<>>, Some(0), None)[1]
        /\ data_length = New(<<>>, Some(0), None)[2]
        /\ reader = <<>>
        /\ lastOp = Op("new_empty", <<>>)

Init ==
    /\ Unprinted
    /\ failAfter = None
    /\ InitNew \/ InitFromFile \/ InitFromData \/ InitFromString \/ InitNewEmpty

\* the stored list stays within the model's bound
Fits(i) == Len(AddHeader(headers, data_length, i.h)[1]) <= MaxHeaders

\* add_header, and with_header, which calls it and returns self
add_header(i) ==
    /\ pc = "built"
    /\ Fits(i)
    /\ headers' = AddHeader(headers, data_length, i.h)[1]
    /\ data_length' = AddHeader(headers, data_length, i.h)[2]
    /\ lastOp' = Op("add_header", <<i.class, i.len>>)
    /\ UNCHANGED <<status_code, reader, pc, printed, failAfter, negIn, negOut>>

with_status_code(code) ==
    /\ pc = "built"
    /\ status_code' = code
    /\ lastOp' = Op("with_status_code", <<>>)
    /\ UNCHANGED <<headers, reader, data_length, pc, printed, failAfter, negIn, negOut>>

\* faulty variant: a length the Response already declares is kept
with_data_KeepsLength(data, len) ==
    /\ pc = "built"
    /\ reader' = data
    /\ data_length' = IF IsSome(data_length) THEN data_length ELSE len
    /\ lastOp' = Op("with_data", <<len>>)
    /\ UNCHANGED <<status_code, headers, pc, printed, failAfter, negIn, negOut>>

with_data(data, len) ==
    /\ pc = "built"
    /\ reader' = data
    /\ data_length' = len
    /\ lastOp' = Op("with_data", <<len>>)
    /\ UNCHANGED <<status_code, headers, pc, printed, failAfter, negIn, negOut>>

Next ==
    \/ \E i \in HeaderInputs : add_header(i)
    \/ \E code \in StatusCodes : with_status_code(code)
    \/ \E data \in Readers, len \in DataLengths : with_data(data, len)
    \/ \E v \in HTTPVersions, rh \in RequestHeaderLists, nb \in BOOLEAN,
          up \in Upgrades, now \in Clock : raw_print(v, rh, nb, up, now)

Spec == Init /\ [][Next]_vars
(***************************************************************************)
(* choose_transfer_encoding called directly                                *)
(***************************************************************************)
\* one element of a TE value as a client writes it: tok.text is the token,
\* tok.enc the encoding it names (None: not a supported one); q.text is the
\* q parameter ("" when absent), q.w its weight in thousandths
Tok(text, enc) == [text |-> text, enc |-> enc]
Q(text, w) == [text |-> text, w |-> w]

TETokens == { Tok(L_identity, Some(Identity)), Tok(L_chunked, Some(Chunked)),
              Tok(T_Chunked, Some(Chunked)), Tok(V_gzip, None) }
TEWeights == { Q(V_empty, 1000), Q(Q_0, 0), Q(Q_03, 300), Q(Q_09, 900), Q(V_minus1, 0 - 1000) }
TEElements == [tok : TETokens, q : TEWeights]
TELists == SeqsUpTo(TEElements, MaxTE)
ShortTELists == SeqsUpTo(TEElements, 1)

FormatTEElement(e) ==
    e.tok.text \o (IF e.q.text = <<>> THEN <<>> ELSE <<59, 113, 61>> \o e.q.text)

\* "a;q=0.3, b"
RECURSIVE FormatTE(_)
FormatTE(list) ==
    IF list = <<>> THEN <<>>
    ELSE IF Len(list) = 1 THEN FormatTEElement(list[1])
    ELSE FormatTEElement(list[1]) \o <<44, 32>> \o FormatTE(Tail(list))

\* a request header: its field, and for a TE header its elements
Req(field, isTE, list) == [field |-> field, isTE |-> isTE, list |-> list]

\* "chunked;q=0, identity;q=0.3, chunked;q=0.9" in every order
ThreeElementLists ==
    LET base == << [tok |-> Tok(L_chunked, Some(Chunked)), q |-> Q(Q_0, 0)],
                   [tok |-> Tok(L_identity, Some(Identity)), q |-> Q(Q_03, 300)],
                   [tok |-> Tok(L_chunked, Some(Chunked)), q |-> Q(Q_09, 900)] >>
    IN  { [i \in 1..3 |-> base[p[i]]] : p \in Permutations(1..3) }

NegRequests ==
    {<<>>}
    \cup { <<Req(L_TE, TRUE, l)>> : l \in ThreeElementLists }
    \cup { <<Req(L_TE, TRUE, l)>> : l \in TELists }
    \cup { <<Req(F_Host, FALSE, <<>>), Req(F_te, TRUE, l)>> : l \in ShortTELists }
    \cup { <<Req(L_TE, TRUE, l1), Req(F_te, TRUE, l2)>> : l1, l2 \in ShortTELists }

ReqHeader(r) == Header(r.field, IF r.isTE THEN FormatTE(r.list) ELSE V_example)
ReqHeaders(reqs) == [i \in 1..Len(reqs) |-> ReqHeader(reqs[i])]

NegVersions == { <<0, 9>>, <<1, 0>>, <<1, 1>>, <<2, 0>> }
NegLengths == { None, Some(50), Some(32767), Some(32768) }

InitNeg ==
    /\ status_code = 200
    /\ headers = <<>>
    /\ reader = <<>>
    /\ data_length = None
    /\ lastOp = Op("none", <<>>)
    /\ failAfter = None
    /\ pc = "negotiate"
    /\ call = None /\ transfer_encoding = None /\ sink = <<>> /\ result = "none" /\ reads = 0
    /\ negOut = None
    /\ \E v \in NegVersions, reqs \in NegRequests, len \in NegLengths, more \in BOOLEAN :
          negIn = Some([http_version |-> v, requests |-> reqs, entity_length |-> len,
                        has_additional_headers |-> more])

Negotiate ==
    /\ pc = "negotiate"
    /\ negOut = None
    /\ negOut' = Some(choose_transfer_encoding(ReqHeaders(Unwrap(negIn).requests),
                          Unwrap(negIn).http_version, Unwrap(negIn).entity_length,
                          Unwrap(negIn).has_additional_headers))
    /\ UNCHANGED <<response, pc, lastOp, printed, failAfter, negIn>>

NextNeg == Negotiate

SpecNeg == InitNeg /\ [][NextNeg]_vars
(***************************************************************************)
(* Properties of choose_transfer_encoding (SpecNeg)                        *)
(***************************************************************************)
NegDone == pc = "negotiate" /\ IsSome(negOut)
NIn == Unwrap(negIn)
NOut == Unwrap(negOut)

\* the request version is above 1.0
AboveOneZero(v) == v[1] > 1 \/ (v[1] = 1 /\ v[2] > 0)

\* the elements of the first TE header of the request; <<>> without one
FirstTEList(reqs) ==
    IF \E i \in 1..Len(reqs) : reqs[i].isTE
    THEN reqs[CHOOSE i \in 1..Len(reqs) : reqs[i].isTE /\ \A j \in 1..(i - 1) : ~reqs[j].isTE].list
    ELSE <<>>

\* the elements a client offers: a supported encoding with positive weight
Offered(list) == { i \in 1..Len(list) : IsSome(list[i].tok.enc) /\ list[i].q.w > 0 }

\* those of the highest weight
Best(list) == { i \in Offered(list) : \A j \in Offered(list) : list[j].q.w <= list[i].q.w }

\* the client's choice: the earliest element of the highest weight
ClientChoice(list) ==
    IF Offered(list) = {} THEN None
    ELSE list[CHOOSE i \in Best(list) : \A j \in Best(list) : i <= j].tok.enc

\* the size rule
BySize(len) == IF len = None \/ Unwrap(len) >= 32768 THEN Chunked ELSE Identity

IdentityQ03 == [tok |-> Tok(L_identity, Some(Identity)), q |-> Q(Q_03, 300)]
ChunkedQ09 == [tok |-> Tok(L_chunked, Some(Chunked)), q |-> Q(Q_09, 900)]

\* C3: above 1.0, when the first TE header offers a supported encoding
\* with positive weight, the result is an offered encoding of the highest
\* weight, wherever it stands in the list
C3_HighestWeightWins ==
    (NegDone /\ AboveOneZero(NIn.http_version) /\ Offered(FirstTEList(NIn.requests)) # {})
        => \E i \in Best(FirstTEList(NIn.requests)) :
              FirstTEList(NIn.requests)[i].tok.enc = negOut

\* "identity;q=0.3, chunked;q=0.9" at 1.1 with a 50-byte body gave Chunked
C3_Witness ==
    /\ NegDone
    /\ NIn.http_version = <<1, 1>>
    /\ NIn.requests = <<Req(L_TE, TRUE, <<IdentityQ03, ChunkedQ09>>)>>
    /\ NIn.entity_length = Some(50)
    /\ NOut = Chunked

\* C4: at version 1.0 or below the result is Identity, whatever the TE
\* header, the length and the trailer flag
C4_OldVersionsIdentity ==
    (NegDone /\ NIn.http_version \in { <<0, 9>>, <<1, 0>> }) => NOut = Identity

\* 1.0, "chunked" offered, unknown length, trailers: still Identity
C4_Witness ==
    /\ NegDone
    /\ NIn.http_version = <<1, 0>>
    /\ NIn.requests = <<Req(L_TE, TRUE, <<[tok |-> Tok(L_chunked, Some(Chunked)), q |-> Q(V_empty, 1000)]>>)>>
    /\ NIn.entity_length = None
    /\ NIn.has_additional_headers
    /\ NOut = Identity

\* C5: above 1.0, with no client preference and no trailers, a known
\* length below 32768 gives Identity, any other length Chunked
C5_SizeThreshold ==
    (NegDone /\ AboveOneZero(NIn.http_version) /\ Offered(FirstTEList(NIn.requests)) = {}
             /\ ~NIn.has_additional_headers)
        => /\ (IsSome(NIn.entity_length) /\ Unwrap(NIn.entity_length) < 32768) => NOut = Identity
           /\ (NIn.entity_length = None \/ Unwrap(NIn.entity_length) >= 32768) => NOut = Chunked

\* no TE header at all, length 32768: Chunked
C5_Witness ==
    /\ NegDone
    /\ NIn.http_version = <<1, 1>>
    /\ NIn.requests = <<>>
    /\ ~NIn.has_additional_headers
    /\ NIn.entity_length = Some(32768)
    /\ NOut = Chunked

\* C6: above 1.0 the result is the client's choice when there is one,
\* whatever the trailer flag and the length; otherwise Chunked when
\* trailers follow; otherwise what the size rule gives
C6_PriorityChain ==
    (NegDone /\ AboveOneZero(NIn.http_version))
        => NOut = IF IsSome(ClientChoice(FirstTEList(NIn.requests)))
                  THEN Unwrap(ClientChoice(FirstTEList(NIn.requests)))
                  ELSE IF NIn.has_additional_headers THEN Chunked
                  ELSE BySize(NIn.entity_length)

\* the client chose identity: returned although trailers follow and the
\* length is unknown
C6_Witness ==
    /\ NegDone
    /\ AboveOneZero(NIn.http_version)
    /\ ClientChoice(FirstTEList(NIn.requests)) = Some(Identity)
    /\ NIn.has_additional_headers
    /\ NIn.entity_length = None
    /\ NOut = Identity
(***************************************************************************)
(* Properties of the Response and of raw_print (Spec)                      *)
(***************************************************************************)
Printed == pc = "printed"

Lower(str) == [i \in 1..Len(str) |-> ToLower(str[i])]
Named(field, name) == Lower(field) = Lower(name)

ForbiddenNames ==
    { L_AcceptRanges, L_Connection, L_ContentRange, L_Trailer, L_TransferEncoding, L_Upgrade }

\* the position in the sink of the blank line that ends the header block;
\* 0 when it was never written
BlankAt ==
    IF \E i \in 1..Len(sink) : sink[i] = L_CRLF
    THEN CHOOSE i \in 1..Len(sink) : sink[i] = L_CRLF /\ \A j \in 1..(i - 1) : sink[j] # L_CRLF
    ELSE 0

\* the header lines on the wire, and what was written after the blank line
HeaderBlock == IF BlankAt = 0 THEN <<>> ELSE SubSeq(sink, 2, BlankAt - 1)
BodyPart == IF BlankAt = 0 THEN <<>> ELSE SubSeq(sink, BlankAt + 1, Len(sink))

\* the field of a header line: what stands before its first ':'
LineField(line) == SubSeq(line, 1, IndexOf(line, 58) - 1)

InBlock(line) == \E i \in 1..Len(HeaderBlock) : HeaderBlock[i] = line

Min(a, b) == IF a <= b THEN a ELSE b

\* the status codes that must not carry a body
BodilessStatus == (100..199) \cup {204, 304}

\* the decimal spelling of the lengths the model declares
Decimal(n) ==
    CASE n = 0 -> V_0
      [] n = 2 -> V_2
      [] n = 32768 -> V_32768

\* C1: when raw_print without upgrade resolves the transfer encoding to
\* Identity, the declared length is present and the assertion holds
C1_IdentityHasLength ==
    (Printed /\ call.upgrade = None /\ transfer_encoding = Some(Identity))
        => (IsSome(data_length) /\ result # "Panic")

\* the header lines of a forbidden field that the serializer itself writes
SerializerLines ==
    (IF IsSome(call.upgrade)
     THEN { L_ConnectionUpgradeLine \o L_CRLF,
            L_UpgradePrefix \o Unwrap(call.upgrade) \o L_CRLF }
     ELSE {})
    \cup
    (IF transfer_encoding = Some(Chunked)
     THEN { L_TransferEncodingChunkedLine \o L_CRLF }
     ELSE {})

NoForbiddenStored ==
    \A i \in 1..Len(headers) : \A n \in ForbiddenNames : ~Named(headers[i].field, n)

NoForbiddenFromCaller ==
    Printed =>
        \A i \in 1..Len(HeaderBlock) :
            (\E n \in ForbiddenNames : Named(LineField(HeaderBlock[i]), n))
                => HeaderBlock[i] \in SerializerLines

\* C2: the stored list never holds a forbidden field, adding one changes
\* nothing of the Response, and every line of such a field in the
\* serialized header block is one the serializer wrote itself
C2_ForbiddenNeverStored ==
    /\ [](NoForbiddenStored /\ NoForbiddenFromCaller)
    /\ [][(lastOp'.op = "add_header" /\ lastOp'.arg[1] = "forbidden")
              => UNCHANGED response]_vars

\* a forbidden header was offered to a Response whose list is full
C2_Witness ==
    /\ lastOp = Op("add_header", <<"forbidden", None>>)
    /\ Len(headers) = MaxHeaders

\* C7: with a bodiless status or do_not_send_body, nothing is written
\* after the blank line
C7_SuppressedBodyEmpty ==
    (Printed /\ (status_code \in BodilessStatus \/ call.do_not_send_body))
        => BodyPart = <<>>

\* status 304, five bytes to send, chunked negotiated: the sink ends with
\* the blank line
C7_Witness ==
    /\ Printed
    /\ result = "Ok"
    /\ status_code = 304
    /\ ~call.do_not_send_body
    /\ TotalLen(reader) = 5
    /\ transfer_encoding = Some(Chunked)
    /\ BlankAt = Len(sink)

\* C8: on upgrade the header block has "Connection: upgrade" and
\* "Upgrade: <name>", no Content-Length and no Transfer-Encoding line, and
\* nothing follows the blank line
C8_UpgradeHasNoFraming ==
    (Printed /\ IsSome(call.upgrade))
        => /\ result = "Ok"
           /\ BlankAt > 0
           /\ InBlock(L_ConnectionUpgradeLine \o L_CRLF)
           /\ InBlock(L_UpgradePrefix \o Unwrap(call.upgrade) \o L_CRLF)
           /\ \A i \in 1..Len(HeaderBlock) :
                 /\ ~Named(LineField(HeaderBlock[i]), L_ContentLength)
                 /\ ~Named(LineField(HeaderBlock[i]), L_TransferEncoding)
           /\ BodyPart = <<>>

\* an upgrade of a 200 response with a body to send and a declared length
C8_Witness ==
    /\ Printed
    /\ call.upgrade = Some(U_websocket)
    /\ status_code = 200
    /\ ~call.do_not_send_body
    /\ reader # <<>>
    /\ data_length = Some(2)

\* C9: an Identity body that is not suppressed has min(declared length,
\* bytes of the source) bytes, the first ones of the source, and no more
\* than the Content-Length line says
C9_IdentityBodyBounded ==
    (Printed /\ result = "Ok" /\ transfer_encoding = Some(Identity) /\ IsSome(data_length)
             /\ status_code \notin BodilessStatus /\ ~call.do_not_send_body)
        => /\ TotalLen(BodyPart) = Min(Unwrap(data_length), TotalLen(reader))
           /\ InBlock(L_ContentLengthPrefix \o Decimal(Unwrap(data_length)) \o L_CRLF)

\* five bytes in the source, two declared: two written
C9_Witness ==
    /\ Printed
    /\ result = "Ok"
    /\ transfer_encoding = Some(Identity)
    /\ status_code = 200
    /\ ~call.do_not_send_body
    /\ data_length = Some(2)
    /\ TotalLen(reader) = 5
    /\ BodyPart = <<B_He>>

\* C10: add_header of a Content-Length never touches the header list, the
\* status or the body source; data_length becomes the number the value
\* spells, and stays as it was when the value spells none
C10_ContentLengthSetsLength ==
    [][(lastOp'.op = "add_header" /\ lastOp'.arg[1] = "length")
          => /\ headers' = headers
             /\ status_code' = status_code
             /\ reader' = reader
             /\ data_length' = IF IsSome(lastOp'.arg[2]) THEN lastOp'.arg[2] ELSE data_length]_vars

\* "content-length: 32768" on a Response that declared another length
C10_Witness ==
    /\ lastOp = Op("add_header", <<"length", Some(32768)>>)
    /\ data_length = Some(32768)
    /\ Len(headers) > 0

(***************************************************************************)
(* Properties of the serialized stream (Spec)                              *)
(***************************************************************************)
StoredHas(name) == \E i \in 1..Len(headers) : Named(headers[i].field, name)

StoredLines ==
    [i \in 1..Len(headers) |->
        headers[i].field \o L_ColonSpace \o headers[i].value \o L_CRLF]

\* the framing line the negotiated encoding calls for
FramingLines ==
    IF transfer_encoding = Some(Chunked) THEN <<L_TransferEncodingChunkedLine \o L_CRLF>>
    ELSE IF transfer_encoding = Some(Identity)
    THEN <<L_ContentLengthPrefix \o Decimal(Unwrap(data_length)) \o L_CRLF>>
    ELSE <<>>

\* the header lines in the order the wire must show them
ExpectedHeaderLines ==
    (IF IsSome(call.upgrade)
     THEN <<L_ConnectionUpgradeLine \o L_CRLF, L_UpgradePrefix \o Unwrap(call.upgrade) \o L_CRLF>>
     ELSE <<>>)
    \o (IF StoredHas(L_Server) THEN <<>> ELSE <<L_ServerLine \o L_CRLF>>)
    \o (IF StoredHas(L_Date) THEN <<>> ELSE <<L_DatePrefix \o call.now \o L_CRLF>>)
    \o StoredLines
    \o FramingLines

\* C11: the sink holds the status line, then Connection, Upgrade, Server
\* and Date as far as the serializer inserted them, the stored headers in
\* stored order and the framing header, then the blank line, then the body
C11_WireOrder ==
    (Printed /\ result = "Ok")
        => /\ Len(sink) >= Len(ExpectedHeaderLines) + 2
           /\ StartsWith(sink[1], L_HTTP)
           /\ SubSeq(sink, 2, Len(ExpectedHeaderLines) + 1) = ExpectedHeaderLines
           /\ sink[Len(ExpectedHeaderLines) + 2] = L_CRLF
           /\ BlankAt = Len(ExpectedHeaderLines) + 2

\* an upgrade of a Response with one stored header: all four inserted
\* headers stand before it
C11_Witness ==
    /\ Printed
    /\ result = "Ok"
    /\ IsSome(call.upgrade)
    /\ headers = <<Header(F_XA, V_1)>>
    /\ Len(sink) = 7

(***************************************************************************)
(* The chunked encoder on its own                                          *)
(***************************************************************************)
\* "\r\n0\r\n\r\n"
B_tricky == <<13, 10, 48, 13, 10, 13, 10>>
\* "0123456789"
B_ten == <<48, 49, 50, 51, 52, 53, 54, 55, 56, 57>>
\* "0123456789abcdef"
B_sixteen == <<48, 49, 50, 51, 52, 53, 54, 55, 56, 57, 97, 98, 99, 100, 101, 102>>
\* "2"
H_2 == <<50>>
\* "7"
H_7 == <<55>>
\* "a"
H_a == <<97>>
\* "10"
H_10 == <<49, 48>>

\* the slices a caller writes: empty, plain, one that spells a
\* terminating chunk, and two whose lengths need the digits "a" and "10"
ChunkSlices == { <<>>, B_ok, B_tricky, B_ten, B_sixteen }

\* reader holds the slices still to be written, call the whole list,
\* sink what the encoder has sent so far
InitChunk ==
    /\ status_code = 200
    /\ headers = <<>>
    /\ data_length = None
    /\ lastOp = Op("ChunksEncoder::new", <<>>)
    /\ failAfter = None
    /\ pc = "encoding"
    /\ transfer_encoding = Some(Chunked) /\ sink = <<>> /\ result = "none" /\ reads = 0
    /\ negIn = None /\ negOut = None
    /\ reader \in SeqsUpTo(ChunkSlices, MaxWrites)
    /\ call = [writes |-> reader]

EncWrite ==
    /\ pc = "encoding"
    /\ reader # <<>>
    /\ sink' = sink \o ChunksEncoder_write(Head(reader))
    /\ reader' = Tail(reader)
    /\ lastOp' = Op("write", <<>>)
    /\ UNCHANGED <<status_code, headers, data_length, pc, call, transfer_encoding,
                   result, reads, failAfter, negIn, negOut>>

EncClose ==
    /\ pc = "encoding"
    /\ reader = <<>>
    /\ sink' = sink \o ChunksEncoder_close
    /\ pc' = "closed"
    /\ lastOp' = Op("close", <<>>)
    /\ UNCHANGED <<status_code, headers, reader, data_length, call, transfer_encoding,
                   result, reads, failAfter, negIn, negOut>>

NextChunk == EncWrite \/ EncClose

SpecChunk == InitChunk /\ [][NextChunk]_vars

\* the hexadecimal spelling of the slice lengths
HexOf(n) ==
    CASE n = 2 -> H_2
      [] n = 7 -> H_7
      [] n = 10 -> H_a
      [] n = 16 -> H_10

\* the stream the grammar asks for: one chunk per non-empty write, in
\* order, then the last chunk
RECURSIVE ExpectedChunks(_)
ExpectedChunks(writes) ==
    IF writes = <<>> THEN L_ChunkEnd
    ELSE IF Head(writes) = <<>> THEN ExpectedChunks(Tail(writes))
    ELSE HexOf(Len(Head(writes))) \o L_CRLF \o Head(writes) \o L_CRLF
             \o ExpectedChunks(Tail(writes))

HexDigit(c) ==
    IF c >= 48 /\ c <= 57 THEN c - 48
    ELSE IF c >= 97 /\ c <= 102 THEN c - 87
    ELSE IF c >= 65 /\ c <= 70 THEN c - 55
    ELSE -1

RECURSIVE HexValue(_)
HexValue(str) ==
    IF str = <<>> THEN 0
    ELSE HexValue(SubSeq(str, 1, Len(str) - 1)) * 16 + HexDigit(str[Len(str)])

\* a reader of the chunked grammar: chunk-size CRLF chunk-data CRLF ...
\* "0" CRLF CRLF; the data as an Option, None for a malformed stream
RECURSIVE Dechunk(_)
Dechunk(bytes) ==
    LET cr   == IndexOf(bytes, 13)
        size == HexValue(SubSeq(bytes, 1, cr - 1))
        rest == SubSeq(bytes, cr + 2 + size, Len(bytes))
    IN  IF cr < 2 \/ Len(bytes) < cr + 1 \/ bytes[cr + 1] # 10 THEN None
        ELSE IF \E i \in 1..(cr - 1) : HexDigit(bytes[i]) < 0 THEN None
        ELSE IF size = 0
             THEN IF SubSeq(bytes, cr + 2, Len(bytes)) = L_CRLF THEN Some(<<>>) ELSE None
        ELSE IF Len(rest) < 2 \/ SubSeq(rest, 1, 2) # L_CRLF THEN None
        ELSE LET tail == Dechunk(SubSeq(rest, 3, Len(rest)))
             IN  IF IsSome(tail)
                 THEN Some(SubSeq(bytes, cr + 2, cr + 1 + size) \o Unwrap(tail))
                 ELSE None

\* C12: before the close the encoder has sent one chunk per non-empty
\* write and no terminating chunk; after it the stream is those chunks
\* followed by one terminating chunk, and a reader of the chunked grammar
\* gets back the bytes written
C12_ChunkedFraming ==
    /\ pc = "encoding" => \A i \in 1..Len(sink) : sink[i] # L_ChunkEnd
    /\ pc = "closed" =>
          /\ ConcatAll(sink) = ExpectedChunks(call.writes)
          /\ Cardinality({ i \in 1..Len(sink) : sink[i] = L_ChunkEnd }) = 1
          /\ sink[Len(sink)] = L_ChunkEnd
          /\ Dechunk(ConcatAll(sink)) = Some(ConcatAll(call.writes))

\* an empty write between two others, one of them spelling a terminating
\* chunk in its data
C12_Witness ==
    /\ pc = "closed"
    /\ call.writes = <<B_tricky, <<>>, B_sixteen>>
    /\ Len(sink) = 3

(***************************************************************************)
(* raw_print on a writer that fails one write                              *)
(***************************************************************************)
InitFail ==
    /\ Unprinted
    /\ failAfter \in { Some(k) : k \in 0..MaxFailAfter }
    /\ InitNew \/ InitFromFile \/ InitFromData \/ InitFromString \/ InitNewEmpty

NextFail ==
    \E v \in HTTPVersions, rh \in RequestHeaderLists, nb \in BOOLEAN,
       up \in Upgrades, now \in Clock : raw_print(v, rh, nb, up, now)

SpecFail == InitFail /\ [][NextFail]_vars

\* what the same call writes when no write fails
Intended ==
    SerializedWrites(status_code, headers, reader, data_length, call.http_version,
                     call.request_headers, call.do_not_send_body, call.upgrade, call.now)

\* C13: when the writer fails a write of raw_print, the sink holds exactly
\* the writes made before it and raw_print returns the failure; when
\* raw_print never gets to the write that would fail, it returns Ok
C13_StopsAtFailedWrite ==
    (Printed /\ IsSome(failAfter) /\ result # "Panic")
        => IF Unwrap(failAfter) < Len(Intended)
           THEN result = "Err" /\ sink = SubSeq(Intended, 1, Unwrap(failAfter))
           ELSE result = "Ok" /\ sink = Intended

\* the second chunk of a chunked body fails: the first chunk is the last
\* thing on the sink, no terminating chunk follows
C13_Witness ==
    /\ Printed
    /\ result = "Err"
    /\ transfer_encoding = Some(Chunked)
    /\ reader = <<B_He, B_llo>>
    /\ BlankAt = Len(sink) - 1
    /\ sink[Len(sink)] = H_2 \o L_CRLF \o B_He \o L_CRLF

\* the lines of a sequence of header lines whose field is `name`
LinesNamed(lines, name) == SelectSeq(lines, LAMBDA l : Named(LineField(l), name))

\* the line the serializer writes for a field it inserts itself
InsertedLine(name) ==
    IF name = L_Date THEN L_DatePrefix \o call.now \o L_CRLF ELSE L_ServerLine \o L_CRLF

\* C14: in a written header block, a Date (a Server) field the caller
\* stored shows exactly the caller's lines of that field, with their values
\* and in their places among the stored headers; when the caller stored
\* none, the block has exactly one line of that field, the serializer's
C14_DateServerOnlyWhenAbsent ==
    (Printed /\ BlankAt # 0)
        => /\ \A name \in {L_Date, L_Server} :
                /\ Len(LinesNamed(HeaderBlock, name)) >= 1
                /\ LinesNamed(HeaderBlock, name) =
                       IF StoredHas(name) THEN LinesNamed(StoredLines, name)
                       ELSE <<InsertedLine(name)>>
           /\ \E off \in 0..Len(HeaderBlock) :
                /\ off + Len(headers) <= Len(HeaderBlock)
                /\ SubSeq(HeaderBlock, off + 1, off + Len(headers)) = StoredLines

\* the caller stored a Date header after another header and no Server
\* header: the serializer adds Server only
C14_Witness ==
    /\ Printed
    /\ result = "Ok"
    /\ headers = <<Header(F_XA, V_1), Header(F_date, V_x)>>
    /\ LinesNamed(HeaderBlock, L_Server) = <<L_ServerLine \o L_CRLF>>

\* a header whose field the Response does not store: a forbidden field or
\* Content-Length, in any case of letters
IsSpecial(h) == \E n \in ForbiddenNames \cup {L_ContentLength} : Named(h.field, n)

\* how often a line stands in a sequence of lines
Occurrences(lines, l) == Len(SelectSeq(lines, LAMBDA x : x = l))

\* C15: add_header appends a header that is neither forbidden nor
\* Content-Length to the end of the stored list, whatever the list holds,
\* and leaves the list alone for the others; a written header block shows
\* every stored header as often as the list holds it
C15_StoredListIsAddedSequence ==
    /\ [][lastOp'.op = "add_header"
              => \A i \in HeaderInputs :
                    add_header(i) =>
                        headers' = IF IsSpecial(i.h) THEN headers ELSE Append(headers, i.h)]_vars
    /\ []((Printed /\ BlankAt # 0)
              => \A k \in 1..Len(headers) :
                    Occurrences(HeaderBlock, StoredLines[k])
                        = Occurrences(StoredLines, StoredLines[k]))

\* the same header was added twice and the block shows it twice
C15_Witness ==
    /\ Printed
    /\ result = "Ok"
    /\ headers = <<Header(F_XA, V_1), Header(F_XA, V_1)>>
    /\ Occurrences(HeaderBlock, F_XA \o L_ColonSpace \o V_1 \o L_CRLF) = 2

(***************************************************************************)
(* Responses serialized in parallel, one task and one sink each            *)
(* (websockets.rs: a task is spawned per request and owns the request, its *)
(* Response and its stream).  In this specification every variable of the  *)
(* Response and of raw_print holds one value per task.                     *)
(***************************************************************************)
NumTasks == 2
Tasks == 1..NumTasks

\* the Response a task builds and the raw_print call it makes with it
Job(code, data, len, version, upgrade) ==
    [code |-> code, data |-> data, len |-> len, version |-> version, upgrade |-> upgrade]

Jobs ==
    { Job(200, <<B_ok>>, Some(2), <<1, 1>>, None),          \* a page, Identity
      Job(101, <<>>, Some(0), <<1, 1>>, Some(U_websocket)), \* the websocket handshake
      Job(200, <<B_ok>>, None, <<1, 0>>, None) }            \* Identity without a length

At(where, done) == [at |-> where, done |-> done]

InitPar ==
    /\ \E job \in [Tasks -> Jobs] :
          /\ status_code = [t \in Tasks |-> job[t].code]
          /\ headers = [t \in Tasks |-> <<>>]
          /\ reader = [t \in Tasks |-> job[t].data]
          /\ data_length = [t \in Tasks |-> job[t].len]
          /\ call = [t \in Tasks |->
                        [http_version |-> job[t].version, request_headers |-> <<>>,
                         do_not_send_body |-> FALSE, upgrade |-> job[t].upgrade,
                         now |-> <<>>]]
    /\ pc = [t \in Tasks |-> At("built", 0)]
    /\ transfer_encoding = [t \in Tasks |-> None]
    /\ sink = [t \in Tasks |-> <<>>]
    /\ result = [t \in Tasks |-> "none"]
    /\ reads = [t \in Tasks |-> 0]
    /\ lastOp = Op("spawn", <<>>)
    /\ failAfter = None /\ negIn = None /\ negOut = None

\* the writes task t makes, from its own Response and its own call
WritesOf(t) ==
    SerializedWrites(status_code[t], headers[t], reader[t], data_length[t],
                     call[t].http_version, call[t].request_headers,
                     call[t].do_not_send_body, call[t].upgrade, call[t].now)

\* faulty variant: every task writes to the stream of the first
WriterOf_Shared(t) == 1

\* the writer of task t is the stream of its own request
WriterOf(t) == t

\* raw_print up to its first write: the encoding is negotiated, the clock
\* is read, the assertion on the length is made
ParBegin(t, now) ==
    LET te == ResolvedEncoding(call[t].request_headers, call[t].http_version,
                               data_length[t], call[t].upgrade)
        panics == te = Some(Identity) /\ ~IsSome(data_length[t])
    IN  /\ pc[t].at = "built"
        /\ call' = [call EXCEPT ![t].now = now]
        /\ transfer_encoding' = [transfer_encoding EXCEPT ![t] = te]
        /\ pc' = [pc EXCEPT ![t] = IF panics THEN At("printed", 0) ELSE At("printing", 0)]
        /\ result' = [result EXCEPT ![t] = IF panics THEN "Panic" ELSE @]
        /\ lastOp' = Op("begin", <<t>>)
        /\ UNCHANGED <<status_code, headers, reader, data_length, sink, reads,
                       failAfter, negIn, negOut>>

\* one write of raw_print
ParWrite(t) ==
    /\ pc[t].at = "printing"
    /\ pc[t].done < Len(WritesOf(t))
    /\ sink' = [sink EXCEPT ![WriterOf(t)] = Append(@, WritesOf(t)[pc[t].done + 1])]
    /\ pc' = [pc EXCEPT ![t].done = @ + 1]
    /\ lastOp' = Op("write", <<t>>)
    /\ UNCHANGED <<status_code, headers, reader, data_length, call, transfer_encoding,
                   result, reads, failAfter, negIn, negOut>>

\* raw_print returns Ok
ParReturn(t) ==
    /\ pc[t].at = "printing"
    /\ pc[t].done = Len(WritesOf(t))
    /\ pc' = [pc EXCEPT ![t].at = "printed"]
    /\ result' = [result EXCEPT ![t] = "Ok"]
    /\ reads' = [reads EXCEPT ![t] =
                    BodyReads(BodyForbidden(status_code[t]), transfer_encoding[t],
                              reader[t], data_length[t])]
    /\ lastOp' = Op("return", <<t>>)
    /\ UNCHANGED <<status_code, headers, reader, data_length, call, transfer_encoding,
                   sink, failAfter, negIn, negOut>>

NextPar ==
    \E t \in Tasks :
        \/ \E now \in Clock : ParBegin(t, now)
        \/ ParWrite(t)
        \/ ParReturn(t)

SpecPar == InitPar /\ [][NextPar]_vars

\* what raw_print puts on the sink when task t's Response is serialized
\* alone with the same call and the same reading of the clock
Alone(t) ==
    IF /\ ResolvedEncoding(call[t].request_headers, call[t].http_version,
                           data_length[t], call[t].upgrade) = Some(Identity)
       /\ ~IsSome(data_length[t])
    THEN <<>>
    ELSE WritesOf(t)

\* what a step of one task may change: its own components only
OwnStep(t) ==
    \A u \in Tasks \ {t} :
        /\ sink'[u] = sink[u]
        /\ pc'[u] = pc[u]
        /\ call'[u] = call[u]
        /\ result'[u] = result[u]
        /\ transfer_encoding'[u] = transfer_encoding[u]
        /\ reads'[u] = reads[u]

\* C16: under every interleaving of the tasks' steps, each sink holds at
\* every moment the first writes of its own Response serialized alone, as
\* many as its task has made, and all of them once the task has returned;
\* a step of one task changes nothing of another
C16_ParallelEqualsAlone ==
    /\ [](\A t \in Tasks :
            /\ Len(sink[t]) = pc[t].done
            /\ pc[t].at # "built"
                  => /\ Len(sink[t]) <= Len(Alone(t))
                     /\ sink[t] = SubSeq(Alone(t), 1, Len(sink[t]))
                     /\ pc[t].at = "printed" => sink[t] = Alone(t))
    /\ [][\A t \in Tasks : lastOp'.arg = <<t>> => OwnStep(t)]_vars

\* two different Responses are both part-written, with different readings
\* of the clock
C16_Witness ==
    /\ pc[1] = At("printing", 4)
    /\ pc[2] = At("printing", 2)
    /\ status_code[1] # status_code[2]
    /\ call[1].now # call[2].now
    /\ lastOp = Op("write", <<1>>)

\* the lines of the written header block that frame the body
FramingOnWire ==
    SelectSeq(HeaderBlock,
              LAMBDA l : Named(LineField(l), L_TransferEncoding)
                             \/ Named(LineField(l), L_ContentLength))

\* C17: every raw_print call without upgrade puts exactly one framing
\* header in the header block: Transfer-Encoding: chunked when Chunked was
\* negotiated, otherwise Content-Length with the data_length the Response
\* holds, also when the body is suppressed
C17_ExactlyOneFramingHeader ==
    (Printed /\ call.upgrade = None)
        => /\ Len(FramingOnWire) = 1
           /\ FramingOnWire[1] =
                  IF transfer_encoding = Some(Chunked)
                  THEN L_TransferEncodingChunkedLine \o L_CRLF
                  ELSE L_ContentLengthPrefix \o Decimal(Unwrap(data_length)) \o L_CRLF

(***************************************************************************)
(* More properties of choose_transfer_encoding (SpecNeg)                   *)
(***************************************************************************)
\* the request without its TE headers
WithoutTE(reqs) == SelectSeq(reqs, LAMBDA r : ~r.isTE)

\* the trailer rule and then the size rule
FallThrough == IF NIn.has_additional_headers THEN Chunked ELSE BySize(NIn.entity_length)

ChunkedQ0 == [tok |-> Tok(L_chunked, Some(Chunked)), q |-> Q(Q_0, 0)]
ChunkedQ1 == [tok |-> Tok(L_chunked, Some(Chunked)), q |-> Q(V_empty, 1000)]

\* C18: above 1.0, when no entry of the first TE header is a recognised
\* encoding with a weight above 0, the result is that of the trailer and
\* size rules and that of the same request without TE headers; a result
\* that departs from those rules is an entry of the first TE header with a
\* weight above 0, and when the first TE header selects an encoding a
\* later TE header does not change it
C18_UnusableTEIsNoTE ==
    (NegDone /\ AboveOneZero(NIn.http_version))
        => /\ Offered(FirstTEList(NIn.requests)) = {}
                => /\ NOut = FallThrough
                   /\ NOut = choose_transfer_encoding(
                                 ReqHeaders(WithoutTE(NIn.requests)), NIn.http_version,
                                 NIn.entity_length, NIn.has_additional_headers)
           /\ NOut # FallThrough
                => \E i \in Offered(FirstTEList(NIn.requests)) :
                      FirstTEList(NIn.requests)[i].tok.enc = negOut
           /\ Offered(FirstTEList(NIn.requests)) # {}
                => negOut = ClientChoice(FirstTEList(NIn.requests))

\* "TE: chunked;q=0" and then "te: chunked" at 1.1 with a 50-byte body:
\* Identity, as without any TE header
C18_Witness ==
    /\ NegDone
    /\ NIn.http_version = <<1, 1>>
    /\ NIn.requests = <<Req(L_TE, TRUE, <<ChunkedQ0>>), Req(F_te, TRUE, <<ChunkedQ1>>)>>
    /\ NIn.entity_length = Some(50)
    /\ ~NIn.has_additional_headers
    /\ NOut = Identity

(***************************************************************************)
(* Frame effects (Spec)                                                    *)
(***************************************************************************)
\* C19: raw_print makes no read on the body source when the body is
\* suppressed (do_not_send_body, status 1xx, 204, 304), when an upgrade is
\* requested, or when the encoding is Identity with declared length 0; in
\* that last case the last two writes are `Content-Length: 0` and the
\* blank line
C19_NoReadWithoutBody ==
    Printed
        => /\ ( \/ call.do_not_send_body
                \/ status_code \in BodilessStatus
                \/ IsSome(call.upgrade)
                \/ (transfer_encoding = Some(Identity) /\ data_length = Some(0)) )
                => reads = 0
           /\ (result = "Ok" /\ transfer_encoding = Some(Identity) /\ data_length = Some(0))
                => /\ Len(sink) >= 3
                   /\ sink[Len(sink)] = L_CRLF
                   /\ sink[Len(sink) - 1] = L_ContentLengthPrefix \o V_0 \o L_CRLF

\* a 200 response whose source holds bytes but whose declared length is 0,
\* body not suppressed: the source is not touched
C19_Witness ==
    /\ Printed
    /\ result = "Ok"
    /\ status_code = 200
    /\ ~call.do_not_send_body
    /\ transfer_encoding = Some(Identity)
    /\ data_length = Some(0)
    /\ reader = <<B_He, B_llo>>
    /\ reads = 0
    /\ sink[Len(sink)] = L_CRLF

\* C20: with_status_code leaves headers, body source and data_length as
\* they were; with_data leaves headers and status as they were and sets
\* data_length to its argument whatever length was declared before;
\* data_length changes only by with_data and by a Content-Length that
\* parses, raw_print does not change it, and the Content-Length line it
\* writes under Identity spells the data_length the Response then holds
C20_LastAssignedLength ==
    /\ [][/\ lastOp'.op = "with_status_code"
               => /\ status_code' \in StatusCodes
                  /\ headers' = headers /\ reader' = reader /\ data_length' = data_length
          /\ lastOp'.op = "with_data"
               => /\ data_length' = lastOp'.arg[1]
                  /\ reader' \in Readers
                  /\ headers' = headers /\ status_code' = status_code
          /\ data_length' # data_length
               => \/ lastOp'.op = "with_data"
                  \/ /\ lastOp'.op = "add_header"
                     /\ lastOp'.arg[1] = "length"
                     /\ data_length' = lastOp'.arg[2]]_vars
    /\ []((Printed /\ result = "Ok" /\ transfer_encoding = Some(Identity))
              => InBlock(L_ContentLengthPrefix \o Decimal(Unwrap(data_length)) \o L_CRLF))

\* with_data(.., Some(2)) on a Response with stored headers that declared
\* another length
C20_Witness ==
    /\ lastOp = Op("with_data", <<Some(2)>>)
    /\ data_length = Some(2)
    /\ Len(headers) = MaxHeaders
    /\ reader = <<B_He, B_llo>>
====
